---- MODULE Spec2Model ----
(***************************************************************************)
(* Model of ReviewRequestDraftResource                                     *)
(* (reviewboard/webapi/resources/review_request_draft.py).                 *)
(*                                                                         *)
(* Text is a sequence of one-character strings, so that splitting,         *)
(* stripping and joining are computed character by character.  The         *)
(* database is the variables drafts, changedescs, review_requests, users   *)
(* and next_id.  A draft instance held by a request handler is a record    *)
(* that reaches the drafts table only through save(); the many-to-many     *)
(* managers (target_groups, target_people, depends_on) write to the table  *)
(* as soon as clear() or add() is called.  Every requester has passed the  *)
(* login gate (webapi_login_required), and each handler runs as one step.  *)
(***************************************************************************)
EXTENDS Integers, Sequences, FiniteSets, TLC

VARIABLES drafts, changedescs, review_requests, users, next_id,
          last, nreq, field_req, first

vars == <<drafts, changedescs, review_requests, users, next_id,
          last, nreq, field_req, first>>

\* ---------------------------------------------------------------- bounds
\* Number of requests handled in one behaviour of Spec.
MaxRequests == 2
\* Longest raw field text drawn in SpecFields.
MaxLen == 3

\* ------------------------------------------------------------ text helpers
Whitespace == {" ", "\n"}

RECURSIVE lstrip(_)
lstrip(s) == IF s # <<>> /\ Head(s) \in Whitespace THEN lstrip(Tail(s)) ELSE s

RECURSIVE rstrip(_)
rstrip(s) ==
    IF s # <<>> /\ s[Len(s)] \in Whitespace
    THEN rstrip(SubSeq(s, 1, Len(s) - 1))
    ELSE s

\* str.strip()
strip(s) == rstrip(lstrip(s))

\* str.split(','): one piece per comma, empty pieces kept.
RECURSIVE str_split_from(_, _, _)
str_split_from(data, i, cur) ==
    IF i > Len(data) THEN <<cur>>
    ELSE IF data[i] = ","
         THEN <<cur>> \o str_split_from(data, i + 1, <<>>)
         ELSE str_split_from(data, i + 1, Append(cur, data[i]))

str_split(data) == str_split_from(data, 1, <<>>)

\* re.split(r"[, ]+", data): pieces between runs of commas and spaces; a run
\* at either end of the text leaves an empty piece there.
RECURSIVE re_split_from(_, _, _, _)
re_split_from(data, i, cur, inrun) ==
    IF i > Len(data) THEN <<cur>>
    ELSE IF data[i] \in {",", " "}
         THEN IF inrun
              THEN re_split_from(data, i + 1, cur, TRUE)
              ELSE <<cur>> \o re_split_from(data, i + 1, <<>>, TRUE)
         ELSE re_split_from(data, i + 1, Append(cur, data[i]), FALSE)

re_split(data) == re_split_from(data, 1, <<>>, FALSE)

\* ','.join(pieces)
RECURSIVE join(_)
join(pieces) ==
    IF pieces = <<>> THEN <<>>
    ELSE IF Len(pieces) = 1 THEN pieces[1]
         ELSE pieces[1] \o <<",">> \o join(Tail(pieces))

\* Case folding of the letters used in group names (name__iexact).
lower(s) == [i \in 1..Len(s) |-> IF s[i] = "D" THEN "d" ELSE s[i]]

Digits == {"1", "2", "9"}
DigitValue(c) == IF c = "1" THEN 1 ELSE IF c = "2" THEN 2 ELSE 9

RECURSIVE to_int(_)
to_int(s) ==
    IF Len(s) = 1 THEN DigitValue(s[1])
    ELSE 10 * to_int(SubSeq(s, 1, Len(s) - 1)) + DigitValue(s[Len(s)])

\* ------------------------------------------------------- _sanitize_bug_ids
RECURSIVE _sanitize_bug_ids_from(_)
_sanitize_bug_ids_from(pieces) ==
    IF pieces = <<>> THEN <<>>
    ELSE LET bug == strip(Head(pieces))
             rest == _sanitize_bug_ids_from(Tail(pieces))
         IN  IF bug # <<>>
             THEN (IF bug[1] = "#" THEN <<Tail(bug)>> ELSE <<bug>>) \o rest
             ELSE rest

_sanitize_bug_ids(entries) == _sanitize_bug_ids_from(str_split(entries))

\* ------------------------------------------------------------ entity store
NoSite == ""
site1 == "site1"

alice == <<"a">>
bob == <<"b">>
carol == <<"c">>
\* A user the second auth backend knows although no User row exists yet.
victor == <<"v">>

InitialUsers == {alice, bob, carol}
SiteUsers == [s \in {site1} |-> {bob, carol}]

Groups == {
    [id |-> "devs", name |-> <<"g">>, display_name |-> <<"D">>,
     local_site |-> NoSite],
    [id |-> "docs", name |-> <<"d", "g">>, display_name |-> <<"d">>,
     local_site |-> NoSite],
    [id |-> "site-devs", name |-> <<"g">>, display_name |-> <<"s">>,
     local_site |-> site1] }

M2MFields == {"target_groups", "target_people", "depends_on"}
TextFields == {"summary", "branch", "description", "testing_done"}

\* The mutable fields of ReviewRequestDraftResource.fields, in one iteration
\* order of the dict.  'public' is mutable too: its parsed value is set as a
\* plain attribute of the instance, which no table column stores.
FieldOrder == <<"branch", "bugs_closed", "depends_on", "changedescription",
                "description", "summary", "target_groups", "target_people",
                "testing_done">>

\* Group.objects.get((Q(name__iexact) | Q(display_name__iexact)) & Q(local_site))
group_get(value, local_site) ==
    LET found == {g \in Groups :
                     /\ \/ lower(g.name) = lower(value)
                        \/ lower(g.display_name) = lower(value)
                     /\ g.local_site = local_site}
    IN  IF found = {} THEN [exc |-> "DoesNotExist", none |-> FALSE, obj |-> ""]
        ELSE IF Cardinality(found) > 1
             THEN [exc |-> "MultipleObjectsReturned", none |-> FALSE, obj |-> ""]
             ELSE [exc |-> "", none |-> FALSE,
                   obj |-> (CHOOSE g \in found : TRUE).id]

\* ReviewRequest.objects.for_id(value, local_site)
for_id(value, local_site, rrs) ==
    IF \E i \in 1..Len(value) : value[i] \notin Digits
    THEN [exc |-> "ValueError", none |-> FALSE, obj |-> 0]
    ELSE LET pk == to_int(value)
         IN  IF pk \in DOMAIN rrs /\ rrs[pk].local_site = local_site
             THEN [exc |-> "", none |-> FALSE, obj |-> pk]
             ELSE [exc |-> "DoesNotExist", none |-> FALSE, obj |-> 0]

\* auth.get_backends(): what backend.get_or_create_user(username) does.
Backends == <<"first", "second">>
get_or_create_user(backend, username) ==
    IF backend = "first"
    THEN (IF username = <<"e">> THEN "raise" ELSE "none")
    ELSE (IF username = victor THEN "user"
          ELSE IF username = <<"z">> THEN "raise" ELSE "none")

\* The loop over the backends without its `if user: return user`.
RECURSIVE _find_user_backends_no_return(_, _, _, _)
_find_user_backends_no_return(i, username, bound, db_users) ==
    IF i > Len(Backends)
    THEN [exc |-> "", none |-> TRUE, obj |-> <<>>, users |-> db_users]
    ELSE LET outcome == get_or_create_user(Backends[i], username)
         IN  IF outcome = "raise" /\ ~bound
             THEN [exc |-> "UnboundLocalError", none |-> FALSE,
                   obj |-> <<>>, users |-> db_users]
             ELSE _find_user_backends_no_return(i + 1, username, TRUE,
                      IF outcome = "user" THEN db_users \cup {username}
                      ELSE db_users)

\* The loop over the backends in _find_user.  bound tells whether the local
\* variable `user` has been assigned yet; when assigned here it holds None.
RECURSIVE _find_user_backends(_, _, _, _)
_find_user_backends(i, username, bound, db_users) ==
    IF i > Len(Backends)
    THEN [exc |-> "", none |-> TRUE, obj |-> <<>>, users |-> db_users]
    ELSE LET outcome == get_or_create_user(Backends[i], username)
         IN  IF outcome = "user"
             THEN [exc |-> "", none |-> FALSE, obj |-> username,
                   users |-> db_users \cup {username}]
             ELSE IF outcome = "raise" /\ ~bound
                  THEN [exc |-> "UnboundLocalError", none |-> FALSE,
                        obj |-> <<>>, users |-> db_users]
                  ELSE _find_user_backends(i + 1, username,
                                           bound \/ outcome = "none", db_users)

_find_user(name, local_site, db_users) ==
    LET username == strip(name)
    IN  IF local_site # NoSite
        THEN IF username \in SiteUsers[local_site] /\ username \in db_users
             THEN [exc |-> "", none |-> FALSE, obj |-> username,
                   users |-> db_users]
             ELSE [exc |-> "DoesNotExist", none |-> FALSE, obj |-> <<>>,
                   users |-> db_users]
        ELSE IF username \in db_users
             THEN [exc |-> "", none |-> FALSE, obj |-> username,
                   users |-> db_users]
             ELSE _find_user_backends(1, username, FALSE, db_users)

\* The lookup of one value of a many-to-many field, by field name.
lookup(field_name, value, local_site, rrs, db_users) ==
    IF field_name = "target_groups"
    THEN group_get(value, local_site) @@ [users |-> db_users]
    ELSE IF field_name = "target_people"
         THEN _find_user(value, local_site, db_users)
         ELSE for_id(value, local_site, rrs) @@ [users |-> db_users]

\* target.add(obj) after the lookup r: add(None) raises.
target_add(r) ==
    IF r.exc = "" /\ r.none THEN [r EXCEPT !.exc = "ValueError"] ELSE r

\* The body of the try block for one value: the lookup, then target.add.
resolve(field_name, value, local_site, rrs, db_users) ==
    target_add(lookup(field_name, value, local_site, rrs, db_users))

\* `except:` narrowed to the lookup's own DoesNotExist.
caught_DoesNotExist(exc) == exc = "DoesNotExist"

\* `except:` catches every exception.
caught(exc) == TRUE

\* One pass of the try/except for a value whose try block ended as r: the
\* object joins the target, or the value joins invalid_entries.
try_value(acc, value, r) ==
    IF r.exc = ""
    THEN [acc EXCEPT !.target = @ \cup {r.obj}, !.users = r.users]
    ELSE IF caught(r.exc)
         THEN [acc EXCEPT !.invalid = Append(@, value), !.users = r.users]
         ELSE [acc EXCEPT !.exc = r.exc, !.users = r.users]

\* The `for value in values` loop of _set_draft_field_data.  acc holds the
\* related manager's rows (target), invalid_entries, the User table and the
\* exception that left the loop uncaught, if any.
RECURSIVE set_references(_, _, _, _, _, _)
set_references(values, i, field_name, local_site, rrs, acc) ==
    IF i > Len(values) \/ acc.exc # "" THEN acc
    ELSE IF values[i] = <<>>
         THEN set_references(values, i + 1, field_name, local_site, rrs, acc)
         ELSE set_references(values, i + 1, field_name, local_site, rrs,
                  try_value(acc, values[i],
                      resolve(field_name, values[i], local_site, rrs,
                              acc.users)))

NoChangeDescription == <<"Change descriptions cannot be used for drafts of new review requests">>
SummaryNewlines == <<"Summary cannot contain newlines">>

\* The many-to-many branch of _set_draft_field_data once the loop has ended
\* as acc: the related manager has written acc.target to the table.
references_set(st, field_name, acc) ==
    [draft |-> [st.draft EXCEPT ![field_name] = acc.target],
     row |-> [st.row EXCEPT ![field_name] = acc.target],
     cd_text |-> st.cd_text, users |-> acc.users,
     modified_objects |-> <<>>, invalid_entries |-> acc.invalid,
     exc |-> acc.exc]

\* _set_draft_field_data.  st is the handler's view: draft (the instance),
\* row (the draft's row in the table, which the related managers write),
\* cd_text (the text of the instance's changedesc object), users (the User
\* table).  The result adds modified_objects, invalid_entries and exc.
_set_draft_field_data(st, field_name, data, local_site, rrs) ==
    IF field_name \in M2MFields
    THEN references_set(st, field_name,
             set_references(re_split(data), 1, field_name, local_site, rrs,
                 [target |-> {}, invalid |-> <<>>,
                  users |-> st.users, exc |-> ""]))
    ELSE IF field_name = "bugs_closed"
    THEN [draft |-> [st.draft EXCEPT !.bugs_closed =
                                        join(_sanitize_bug_ids(data))],
          row |-> st.row, cd_text |-> st.cd_text, users |-> st.users,
          modified_objects |-> <<>>, invalid_entries |-> <<>>, exc |-> ""]
    ELSE IF field_name = "changedescription"
    THEN IF st.draft.changedesc = 0
         THEN [draft |-> st.draft, row |-> st.row, cd_text |-> st.cd_text,
               users |-> st.users, modified_objects |-> <<>>,
               invalid_entries |-> <<NoChangeDescription>>, exc |-> ""]
         ELSE [draft |-> st.draft, row |-> st.row, cd_text |-> data,
               users |-> st.users, modified_objects |-> <<"changedesc">>,
               invalid_entries |-> <<>>, exc |-> ""]
    ELSE IF field_name = "summary" /\ \E i \in 1..Len(data) : data[i] = "\n"
    THEN [draft |-> st.draft, row |-> st.row, cd_text |-> st.cd_text,
          users |-> st.users, modified_objects |-> <<>>,
          invalid_entries |-> <<SummaryNewlines>>, exc |-> ""]
    ELSE [draft |-> [st.draft EXCEPT ![field_name] = data],
          row |-> st.row, cd_text |-> st.cd_text, users |-> st.users,
          modified_objects |-> <<>>, invalid_entries |-> <<>>, exc |-> ""]

\* The body of the loop over self.fields after _set_draft_field_data
\* returned r: invalid entries go to invalid_fields, else the modified
\* objects go to modified_objects.
collect(h, field_name, r) ==
    [draft |-> r.draft, row |-> r.row,
     cd_text |-> r.cd_text, users |-> r.users, exc |-> r.exc,
     modified_objects |->
        IF r.invalid_entries = <<>>
        THEN h.modified_objects \o r.modified_objects
        ELSE h.modified_objects,
     invalid_fields |->
        IF r.invalid_entries # <<>>
        THEN (field_name :> r.invalid_entries) @@ h.invalid_fields
        ELSE h.invalid_fields]

\* The loop over self.fields in update.  kwargs maps the supplied field
\* names to their text; h carries draft, row, cd_text, users and the
\* handler's modified_objects and invalid_fields.
RECURSIVE apply_fields(_, _, _, _, _)
apply_fields(i, kwargs, local_site, rrs, h) ==
    IF i > Len(FieldOrder) \/ h.exc # "" THEN h
    ELSE IF FieldOrder[i] \notin DOMAIN kwargs
         THEN apply_fields(i + 1, kwargs, local_site, rrs, h)
         ELSE apply_fields(i + 1, kwargs, local_site, rrs,
                  collect(h, FieldOrder[i],
                      _set_draft_field_data(h, FieldOrder[i],
                          kwargs[FieldOrder[i]], local_site, rrs)))

\* --------------------------------------------------------------- the models
has_perm(user) == user = carol

\* ReviewRequest.is_mutable_by / ReviewRequestDraft.is_mutable_by
is_mutable_by(rr, user) == rr.submitter = user \/ has_perm(user)

\* resources.review_request.get_object: does the addressed review request
\* exist in the addressed site?
get_object(rrs, local_site_name, review_request_id) ==
    /\ review_request_id \in DOMAIN rrs
    /\ rrs[review_request_id].local_site = local_site_name

\* review_request.draft: the rows of the draft table for a review request.
drafts_of(db_drafts, rr_id) ==
    {d \in DOMAIN db_drafts : db_drafts[d].review_request = rr_id}

new_draft_row(rr, rr_id, pk) ==
    [review_request |-> rr_id,
     summary |-> rr.summary, branch |-> rr.branch,
     description |-> rr.description, testing_done |-> rr.testing_done,
     bugs_closed |-> rr.bugs_closed,
     changedesc |-> IF rr.public THEN pk ELSE 0,
     target_groups |-> rr.target_groups,
     target_people |-> rr.target_people,
     depends_on |-> rr.depends_on]

\* ReviewRequestDraft.create(review_request): the existing draft, or a new
\* row copied from the review request, with a change description when the
\* review request is public.
ReviewRequestDraft_create(db, rr_id) ==
    IF drafts_of(db.drafts, rr_id) # {}
    THEN [db |-> db, id |-> CHOOSE d \in drafts_of(db.drafts, rr_id) : TRUE]
    ELSE LET pk == db.next_id
             rr == db.review_requests[rr_id]
         IN  [db |-> [db EXCEPT
                        !.drafts = (pk :> new_draft_row(rr, rr_id, pk)) @@ @,
                        !.changedescs = IF rr.public
                                        THEN (pk :> <<>>) @@ @ ELSE @,
                        !.next_id = pk + 1],
              id |-> pk]

\* ReviewRequest.publish(user): the draft's fields move to the review
\* request, which becomes public, and the draft is deleted.
publish(db, rr_id) ==
    LET ds == drafts_of(db.drafts, rr_id)
        rr == db.review_requests[rr_id]
        merged == IF ds = {} THEN rr
                  ELSE LET d == db.drafts[CHOOSE x \in ds : TRUE]
                       IN  [rr EXCEPT !.summary = d.summary,
                                      !.branch = d.branch,
                                      !.description = d.description,
                                      !.testing_done = d.testing_done,
                                      !.bugs_closed = d.bugs_closed,
                                      !.target_groups = d.target_groups,
                                      !.target_people = d.target_people,
                                      !.depends_on = d.depends_on]
    IN  [db EXCEPT
           !.review_requests[rr_id] = [merged EXCEPT !.public = TRUE],
           !.drafts = [x \in DOMAIN @ \ ds |-> @[x]]]

\* prepare_draft with the draft created before the permission check.
prepare_draft_create_first(db, user, rr_id) ==
    LET made == ReviewRequestDraft_create(db, rr_id)
    IN  IF ~is_mutable_by(db.review_requests[rr_id], user)
        THEN [denied |-> TRUE, db |-> made.db, id |-> 0]
        ELSE [denied |-> FALSE] @@ made

\* prepare_draft constructing a draft row instead of calling create.
prepare_draft_always_new(db, user, rr_id) ==
    IF ~is_mutable_by(db.review_requests[rr_id], user)
    THEN [denied |-> TRUE, db |-> db, id |-> 0]
    ELSE LET pk == db.next_id
             rr == db.review_requests[rr_id]
         IN  [denied |-> FALSE,
              db |-> [db EXCEPT
                        !.drafts = (pk :> new_draft_row(rr, rr_id, pk)) @@ @,
                        !.changedescs = IF rr.public
                                        THEN (pk :> <<>>) @@ @ ELSE @,
                        !.next_id = pk + 1],
              id |-> pk]

\* prepare_draft
prepare_draft(db, user, rr_id) ==
    IF ~is_mutable_by(db.review_requests[rr_id], user)
    THEN [denied |-> TRUE, db |-> db, id |-> 0]
    ELSE [denied |-> FALSE] @@ ReviewRequestDraft_create(db, rr_id)

\* webapi_request_fields: the parsed value of a field of type bool.
parse_bool(raw) == raw \in {"1", "True", "true"}

\* The publish request never recognised.
wants_publish_never(POST) == FALSE

\* request.POST.get('public', False), taken as a condition.
wants_publish(POST) == "public" \in DOMAIN POST /\ POST["public"] # ""

\* The INVALID_FORM_DATA return never taken.
has_invalid_never(invalid_fields) == FALSE

\* `if invalid_fields:` before the INVALID_FORM_DATA return.
has_invalid(invalid_fields) == DOMAIN invalid_fields # {}

\* `if always_save or not invalid_fields:`
should_save(always_save, invalid_fields) ==
    always_save \/ DOMAIN invalid_fields = {}

NoLast ==
    [op |-> "none", code |-> "", rr |-> 0, rr_exists |-> FALSE,
     permitted |-> FALSE, had_draft |-> FALSE, public_flag |-> FALSE,
     always_save |-> FALSE, invalid_fields |-> <<>>, saved |-> FALSE,
     published |-> 0, draft |-> 0]

\* What update knows of the request once the review request is found.
seen_request(db, rq) ==
    [NoLast EXCEPT
       !.op = "update", !.rr = rq.review_request_id,
       !.always_save = rq.always_save,
       !.public_flag = ("public" \in DOMAIN rq.POST
                        /\ parse_bool(rq.POST["public"])),
       !.rr_exists = TRUE,
       !.permitted = is_mutable_by(db.review_requests[rq.review_request_id],
                                   rq.user),
       !.had_draft = drafts_of(db.drafts, rq.review_request_id) # {}]

\* The handler's view of the draft before the loop over the fields.
handler_state(db, id) ==
    [draft |-> db.drafts[id], row |-> db.drafts[id],
     cd_text |-> IF db.drafts[id].changedesc # 0
                 THEN db.changedescs[db.drafts[id].changedesc]
                 ELSE <<>>,
     users |-> db.users, exc |-> "",
     modified_objects |-> <<>>, invalid_fields |-> <<>>]

\* Did the loop end normally and does update save?
saves(rq, h) == h.exc = "" /\ should_save(rq.always_save, h.invalid_fields)

\* The database after the loop ended as h: the related managers and the
\* auth backends have written already; obj.save() and draft.save() write
\* the modified objects and the instance when update saves.
save_all(db, rq, id, h) ==
    [db EXCEPT
       !.users = h.users,
       !.drafts[id] = IF saves(rq, h) THEN h.draft ELSE h.row,
       !.changedescs =
           IF saves(rq, h) /\ h.modified_objects # <<>>
           THEN [@ EXCEPT ![db.drafts[id].changedesc] = h.cd_text]
           ELSE @]

\* The end of update: the INVALID_FORM_DATA return, or publish and 200.
finish(db2, rq, done, h) ==
    IF h.exc # ""
    THEN [db |-> db2, last |-> [done EXCEPT !.code = "ERROR"]]
    ELSE IF has_invalid(h.invalid_fields)
    THEN [db |-> db2, last |-> [done EXCEPT !.code = "INVALID_FORM_DATA"]]
    ELSE IF wants_publish(rq.POST)
    THEN [db |-> publish(db2, rq.review_request_id),
          last |-> [done EXCEPT !.code = "200", !.published = 1]]
    ELSE [db |-> db2, last |-> [done EXCEPT !.code = "200"]]

\* update from the loop over the fields on, which ended as h.
update_fields(db1, rq, id, seen, h) ==
    finish(save_all(db1, rq, id, h), rq,
           [seen EXCEPT !.invalid_fields = h.invalid_fields,
                        !.saved = saves(rq, h), !.draft = id],
           h)

\* update after prepare_draft returned p.
update_draft(rq, seen, p) ==
    IF p.denied
    THEN [db |-> p.db, last |-> [seen EXCEPT !.code = "PERMISSION_DENIED"]]
    ELSE update_fields(p.db, rq, p.id, seen,
             apply_fields(1, rq.kwargs, rq.local_site_name,
                          p.db.review_requests, handler_state(p.db, p.id)))

\* update.  rq is the request: user, local_site_name, review_request_id,
\* kwargs (the supplied text fields), POST (the raw form) and always_save.
\* The result is the database afterwards and the record of the response.
update(db, rq) ==
    IF ~get_object(db.review_requests, rq.local_site_name,
                   rq.review_request_id)
    THEN [db |-> db,
          last |-> [NoLast EXCEPT
                      !.op = "update", !.rr = rq.review_request_id,
                      !.always_save = rq.always_save,
                      !.public_flag = ("public" \in DOMAIN rq.POST
                                       /\ parse_bool(rq.POST["public"])),
                      !.code = "DOES_NOT_EXIST"]]
    ELSE update_draft(rq, seen_request(db, rq),
                      prepare_draft(db, rq.user, rq.review_request_id))

\* The result of update as create returns it: 200 turned into 201.
created(result) ==
    [db |-> result.db,
     last |-> [result.last EXCEPT
                 !.op = "create",
                 !.code = IF @ = "200" THEN "201" ELSE @]]

\* create
create(db, rq) == created(update(db, rq))

\* delete taking the draft from ReviewRequestDraft.create.
delete_get_draft_create(db, rr_id) ==
    [found |-> TRUE] @@ ReviewRequestDraft_create(db, rr_id)

\* review_request.draft.get() in delete: the draft, if there is one.
delete_get_draft(db, rr_id) ==
    IF drafts_of(db.drafts, rr_id) = {}
    THEN [found |-> FALSE, db |-> db, id |-> 0]
    ELSE [found |-> TRUE, db |-> db,
          id |-> CHOOSE d \in drafts_of(db.drafts, rr_id) : TRUE]

\* delete
delete(db, rq) ==
    LET rr_id == rq.review_request_id
        base == [NoLast EXCEPT !.op = "delete", !.rr = rr_id]
    IN
    IF ~get_object(db.review_requests, rq.local_site_name, rr_id)
    THEN [db |-> db, last |-> [base EXCEPT !.code = "DOES_NOT_EXIST"]]
    ELSE
    LET g == delete_get_draft(db, rr_id)
        seen == [base EXCEPT
                   !.rr_exists = TRUE,
                   !.permitted = is_mutable_by(db.review_requests[rr_id],
                                               rq.user),
                   !.had_draft = drafts_of(db.drafts, rr_id) # {}]
    IN
    IF ~g.found
    THEN [db |-> g.db, last |-> [seen EXCEPT !.code = "DOES_NOT_EXIST"]]
    ELSE IF ~is_mutable_by(db.review_requests[rr_id], rq.user)
    THEN [db |-> g.db, last |-> [seen EXCEPT !.code = "PERMISSION_DENIED",
                                             !.draft = g.id]]
    ELSE [db |-> [g.db EXCEPT
                    !.drafts = [x \in DOMAIN @ \ {g.id} |-> @[x]]],
          last |-> [seen EXCEPT !.code = "204", !.draft = g.id]]

\* ------------------------------------------------------------ state machine
InitialReviewRequests ==
    (1 :> [submitter |-> alice, local_site |-> NoSite, public |-> TRUE,
           summary |-> <<"r">>, branch |-> <<>>, description |-> <<>>,
           testing_done |-> <<>>, bugs_closed |-> <<>>,
           target_groups |-> {"devs"}, target_people |-> {},
           depends_on |-> {}])
    @@
    (2 :> [submitter |-> bob, local_site |-> site1, public |-> FALSE,
           summary |-> <<"n">>, branch |-> <<>>, description |-> <<>>,
           testing_done |-> <<>>, bugs_closed |-> <<>>,
           target_groups |-> {}, target_people |-> {},
           depends_on |-> {}])

NoFieldReq == [field |-> "", data |-> <<>>, rr |-> 0, other |-> <<>>]

database ==
    [drafts |-> drafts, changedescs |-> changedescs,
     review_requests |-> review_requests, users |-> users,
     next_id |-> next_id]

Init ==
    /\ drafts = <<>>
    /\ changedescs = <<>>
    /\ review_requests = InitialReviewRequests
    /\ users = InitialUsers
    /\ next_id = 1
    /\ last = NoLast
    /\ nreq = 0
    /\ field_req = NoFieldReq
    /\ first = <<>>

\* The requests drawn in Spec.
Requesters == {alice, bob, carol}
Targets == {[local_site_name |-> NoSite, review_request_id |-> 1],
            [local_site_name |-> site1, review_request_id |-> 2],
            [local_site_name |-> NoSite, review_request_id |-> 9]}
PostInputs == {<<>>, "public" :> "0", "public" :> "1"}
KwargsInputs ==
    { <<>>,
      "summary" :> <<"s">>,
      ("summary" :> <<"s", "\n", "t">>) @@ ("branch" :> <<"b">>),
      ("branch" :> <<"b">>) @@ ("description" :> <<"d">>)
          @@ ("testing_done" :> <<"t">>),
      "bugs_closed" :> <<"#", "1", ",", " ", "2">>,
      "changedescription" :> <<"c">>,
      ("changedescription" :> <<"c">>) @@ ("summary" :> <<"s", "\n">>),
      "target_groups" :> <<"d", "g">>,
      ("target_groups" :> <<"x", ",", "g">>) @@ ("description" :> <<"d">>),
      "target_people" :> <<"v", " ", "b">>,
      ("target_people" :> <<"z", ",", "b">>) @@ ("depends_on" :> <<"1">>),
      "depends_on" :> <<"9", ",", " ", "2">> }

Requests ==
    {[user |-> u, local_site_name |-> t.local_site_name,
      review_request_id |-> t.review_request_id,
      kwargs |-> k, POST |-> p, always_save |-> a] :
        u \in Requesters, t \in Targets, k \in KwargsInputs,
        p \in PostInputs, a \in BOOLEAN}

Respond(result) ==
    /\ drafts' = result.db.drafts
    /\ changedescs' = result.db.changedescs
    /\ review_requests' = result.db.review_requests
    /\ users' = result.db.users
    /\ next_id' = result.db.next_id
    /\ last' = result.last
    /\ nreq' = nreq + 1

Create ==
    /\ nreq < MaxRequests
    /\ \E rq \in Requests : Respond(create(database, rq))
    /\ UNCHANGED <<field_req, first>>

Update ==
    /\ nreq < MaxRequests
    /\ \E rq \in Requests : Respond(update(database, rq))
    /\ UNCHANGED <<field_req, first>>

Delete ==
    /\ nreq < MaxRequests
    /\ \E u \in Requesters, t \in Targets :
          Respond(delete(database,
                         [user |-> u, local_site_name |-> t.local_site_name,
                          review_request_id |-> t.review_request_id]))
    /\ UNCHANGED <<field_req, first>>

Next == Create \/ Update \/ Delete

Spec == Init /\ [][Next]_vars

\* ----------------------------------------------- one field, applied twice
\* SpecFields starts from a draft that exists already and applies one
\* field, with every text up to MaxLen characters, twice in succession.
GroupChars == {",", " ", "g", "d", "D"}
PeopleChars == {",", " ", "a", "v", "e", "z"}
DependsChars == {",", " ", "1", "2", "x"}
BugChars == {",", " ", "#", "1"}

Texts(chars) == UNION {[1..n -> chars] : n \in 0..MaxLen}

\* The other fields supplied along with the field under study.
OtherKwargs == {<<>>, "testing_done" :> <<"t">>, "summary" :> <<"s", "\n">>}

FieldChars(field) ==
    IF field = "target_groups" THEN GroupChars
    ELSE IF field = "target_people" THEN PeopleChars
    ELSE IF field = "depends_on" THEN DependsChars
    ELSE BugChars

\* What the field's reference set may hold before the first application.
InitialReferences(field, rr_id) ==
    IF field = "target_groups"
    THEN {{}, IF rr_id = 1 THEN {"devs", "docs"} ELSE {"site-devs"}}
    ELSE IF field = "target_people" THEN {{}, {bob}}
    ELSE IF field = "depends_on" THEN {{}, {rr_id}}
    ELSE {{}}

InitFields ==
    /\ \E rr_id \in {1, 2},
          field \in M2MFields \cup {"bugs_closed"} :
          /\ \E data \in Texts(FieldChars(field)), other \in OtherKwargs :
                field_req = [field |-> field, data |-> data, rr |-> rr_id,
                             other |-> other]
          /\ \E refs \in InitialReferences(field, rr_id) :
                LET row == new_draft_row(InitialReviewRequests[rr_id],
                                         rr_id, 1)
                IN  drafts = (1 :> IF field \in M2MFields
                                   THEN [row EXCEPT ![field] = refs]
                                   ELSE row)
          /\ changedescs = IF rr_id = 1 THEN (1 :> <<>>) ELSE <<>>
    /\ review_requests = InitialReviewRequests
    /\ users = InitialUsers
    /\ next_id = 2
    /\ last = NoLast
    /\ nreq = 0
    /\ first = <<>>

ApplyField ==
    /\ nreq < 2
    /\ \E a \in BOOLEAN :
          Respond(update(database,
              [user |-> review_requests[field_req.rr].submitter,
               local_site_name |-> review_requests[field_req.rr].local_site,
               review_request_id |-> field_req.rr,
               kwargs |-> (field_req.field :> field_req.data)
                              @@ field_req.other,
               POST |-> <<>>, always_save |-> a]))
    /\ first' = IF nreq = 0
                THEN <<[row |-> drafts'[1],
                        invalid_fields |-> last'.invalid_fields]>>
                ELSE first
    /\ UNCHANGED field_req

NextFields == ApplyField

SpecFields == InitFields /\ [][NextFields]_vars

\* ------------------------------------------------------------- properties
WriteOps == {"create", "update"}
Stored == <<drafts, changedescs, review_requests, users>>
InvalidOf(invalid_fields, field) ==
    IF field \in DOMAIN invalid_fields THEN invalid_fields[field] ELSE <<>>

\* C1: a create or update that produced invalid fields and was not told to
\* always save leaves the stored drafts, change descriptions, review
\* requests and users exactly as they were before the request.
C1_InvalidLeavesStorage ==
    [][(/\ last'.op \in WriteOps
        /\ DOMAIN last'.invalid_fields # {}
        /\ ~last'.always_save)
       => UNCHANGED Stored]_vars

\* C2 as stated: a request by a user who may not edit an existing review
\* request is answered PERMISSION_DENIED, whatever the operation, and
\* changes nothing and publishes nothing.
C2_DeniedIsAlwaysPermissionDenied ==
    [][(/\ last'.op # "none"
        /\ nreq' # nreq
        /\ last'.rr_exists
        /\ ~last'.permitted)
       => /\ last'.code = "PERMISSION_DENIED"
          /\ last'.published = 0
          /\ UNCHANGED <<Stored, next_id>>]_vars

\* C2 amended: a request by a user who may not edit an existing review
\* request changes nothing and publishes nothing; it is answered
\* PERMISSION_DENIED, except that delete answers DOES_NOT_EXIST when the
\* review request has no draft.
C2_DeniedChangesNothing ==
    [][(/\ last'.op # "none"
        /\ nreq' # nreq
        /\ last'.rr_exists
        /\ ~last'.permitted)
       => /\ IF last'.op = "delete" /\ ~last'.had_draft
             THEN last'.code = "DOES_NOT_EXIST"
             ELSE last'.code = "PERMISSION_DENIED"
          /\ last'.published = 0
          /\ UNCHANGED <<Stored, next_id>>]_vars

\* A delete by a user without edit rights found the draft and was refused.
C2_Witness ==
    /\ last.op = "delete"
    /\ last.rr_exists /\ ~last.permitted /\ last.had_draft
    /\ last.code = "PERMISSION_DENIED"
    /\ drafts_of(drafts, last.rr) # {}

\* C3: a create or update by a permitted requester with no invalid field
\* and a true public flag calls publish exactly once, answers success, and
\* leaves the review request without a draft.
C3_PublicPublishesOnce ==
    (/\ last.op \in WriteOps
     /\ last.rr_exists /\ last.permitted
     /\ DOMAIN last.invalid_fields = {}
     /\ last.public_flag)
    => /\ last.published = 1
       /\ last.code \in {"200", "201"}
       /\ drafts_of(drafts, last.rr) = {}

C3_Witness ==
    /\ last.op = "update"
    /\ last.public_flag /\ last.published = 1
    /\ last.had_draft
    /\ drafts_of(drafts, last.rr) = {}
    /\ review_requests[last.rr].public

\* C4: a request that called publish had no invalid field and saved the
\* draft before; a request with invalid fields never publishes, forced
\* save or not.
C4_PublishOnlyAfterValidSave ==
    /\ last.published > 0
          => /\ last.op \in WriteOps
             /\ DOMAIN last.invalid_fields = {}
             /\ last.saved
    /\ DOMAIN last.invalid_fields # {} => last.published = 0

\* Invalid fields, a forced save and a true public flag: saved, unpublished.
C4_Witness ==
    /\ last.op \in WriteOps
    /\ DOMAIN last.invalid_fields # {}
    /\ last.always_save /\ last.saved
    /\ last.public_flag
    /\ last.published = 0
    /\ last.draft \in DOMAIN drafts

\* C5: a create or update whose public field is absent or parses to false
\* does not call publish, and the draft it worked on still exists.
C5_FalsePublicNeverPublishes ==
    (/\ last.op \in WriteOps
     /\ ~last.public_flag)
    => /\ last.published = 0
       /\ last.draft # 0 => last.draft \in DOMAIN drafts

\* C6: delete on an existing review request that has no draft answers
\* DOES_NOT_EXIST and leaves the draft table, and the key sequence, as they
\* were.
C6_DeleteWithoutDraft ==
    [][(/\ last'.op = "delete"
        /\ nreq' # nreq
        /\ last'.rr_exists
        /\ ~last'.had_draft)
       => /\ last'.code = "DOES_NOT_EXIST"
          /\ UNCHANGED <<drafts, next_id>>]_vars

\* A requester with edit rights deleted where there was no draft.
C6_Witness ==
    /\ last.op = "delete"
    /\ last.rr_exists /\ last.permitted /\ ~last.had_draft
    /\ last.code = "DOES_NOT_EXIST"

RECURSIVE ClaimedBugs(_)
ClaimedBugs(pieces) ==
    IF pieces = <<>> THEN <<>>
    ELSE LET s == strip(Head(pieces))
             bug == IF s # <<>> /\ s[1] = "#" THEN Tail(s) ELSE s
         IN  (IF bug = <<>> THEN <<>> ELSE <<bug>>)
             \o ClaimedBugs(Tail(pieces))

\* C8: the stored bugs_closed is the comma-joined list of those entries; no
\* stored entry is empty and none begins or ends with whitespace.
C8_BugsSanitized ==
    (field_req.field = "bugs_closed" /\ nreq >= 1 /\ last.saved)
    => LET stored == drafts[1].bugs_closed
           entries == IF stored = <<>> THEN <<>> ELSE str_split(stored)
       IN  /\ stored = join(ClaimedBugs(str_split(field_req.data)))
           /\ \A i \in 1..Len(entries) :
                 entries[i] # <<>> /\ strip(entries[i]) = entries[i]

\* The non-empty values of a many-to-many field's text, in order.
ValuesOf(data) == SelectSeq(re_split(data), LAMBDA v : v # <<>>)
Looked(value) ==
    resolve(field_req.field, value,
            review_requests[field_req.rr].local_site, review_requests, users)

\* C9: for a many-to-many field, the values that do not resolve are the
\* field's invalid entries, in order, and add nothing to the reference
\* set, which holds the objects of the values that do resolve; the request
\* ends with an ordinary response, and the other supplied field is
\* processed: its invalid entry is reported, or its value is saved when
\* the draft is.
C9_FailedLookupsAreInvalidEntries ==
    (field_req.field \in M2MFields /\ nreq >= 1)
    => LET values == ValuesOf(field_req.data)
           failed == SelectSeq(values, LAMBDA v : Looked(v).exc # "")
           other == field_req.other
       IN  /\ last.code \in {"200", "INVALID_FORM_DATA"}
           /\ InvalidOf(last.invalid_fields, field_req.field) = failed
           /\ drafts[1][field_req.field] =
                 {Looked(values[i]).obj :
                     i \in {j \in 1..Len(values) : Looked(values[j]).exc = ""}}
           /\ "summary" \in DOMAIN other
                 => InvalidOf(last.invalid_fields, "summary")
                       = <<SummaryNewlines>>
           /\ ("testing_done" \in DOMAIN other /\ last.saved)
                 => drafts[1].testing_done = other["testing_done"]
           /\ DOMAIN last.invalid_fields \subseteq
                 {field_req.field} \cup DOMAIN other

\* A backend raised for the first user name; the second was still added.
C9_Witness ==
    /\ field_req.field = "target_people"
    /\ field_req.data = <<"e", ",", "a">>
    /\ field_req.other = ("testing_done" :> <<"t">>)
    /\ nreq = 1
    /\ last.invalid_fields = ("target_people" :> << <<"e">> >>)
    /\ drafts[1].target_people = {alice}
    /\ last.always_save /\ drafts[1].testing_done = <<"t">>

\* C10: after the second application of the same text to a many-to-many
\* field, the reference set and the invalid entries are those the first
\* application left.
C10_SecondApplicationSame ==
    (field_req.field \in M2MFields /\ nreq = 2)
    => /\ drafts[1][field_req.field] = first[1].row[field_req.field]
       /\ InvalidOf(last.invalid_fields, field_req.field)
             = InvalidOf(first[1].invalid_fields, field_req.field)

\* The user the backend created at the first application is found again.
C10_Witness ==
    /\ field_req.field = "target_people"
    /\ field_req.data = <<"z", " ", "v">>
    /\ nreq = 2
    /\ drafts[1].target_people = {victor}
    /\ InvalidOf(last.invalid_fields, "target_people") = << <<"z">> >>
    /\ victor \in users
====
